---- MODULE Spec2Model ----
(***************************************************************************)
(* Node service of the iRODS CSI driver: NodePublishVolume and             *)
(* NodeUnpublishVolume with the three mount back ends (irodsfs, davfs,     *)
(* nfs), over an operating-system state made of the target directories     *)
(* and the mount table.                                                    *)
(*                                                                         *)
(* Strings whose characters matter (values of the volume context and of    *)
(* the secrets, mount options, mount sources) are sequences of atoms: an   *)
(* atom is one character ("/", a digit) or a run of characters that no     *)
(* operation of the driver looks into ("alice", "irods://").  Map keys,    *)
(* volume ids and target paths are plain strings: the code only compares   *)
(* them, tests them for emptiness or lower-cases them.                     *)
(***************************************************************************)
EXTENDS Integers, Sequences, FiniteSets, TLC

VARIABLES dirs, mounts, everMounted, last, pending, calls

vars == <<dirs, mounts, everMounted, last, pending, calls>>

(***************************************************************************)
(* Bounds of the model.                                                    *)
(***************************************************************************)
\* mounts stacked on one target path
MaxMounts == 2
\* caller-supplied mount flags in one request
MaxFlags == 2
\* keys added to a base volume context / secrets map
MaxExtra == 1

(***************************************************************************)
(* Strings.                                                                *)
(***************************************************************************)
Str(a) == <<a>>

EmptyStr == <<>>

RECURSIVE TrimLeft(_, _)
TrimLeft(s, c) ==
    IF Len(s) > 0 /\ Head(s) = c THEN TrimLeft(Tail(s), c) ELSE s

RECURSIVE TrimRight(_, _)
TrimRight(s, c) ==
    IF Len(s) > 0 /\ s[Len(s)] = c
    THEN TrimRight(SubSeq(s, 1, Len(s) - 1), c)
    ELSE s

\* strings.Trim(s, cutset) for a one-character cutset
Trim(s, c) == TrimRight(TrimLeft(s, c), c)

Digits == <<"0", "1", "2", "3", "4", "5", "6", "7", "8", "9">>

IsDigit(a) == \E i \in 1..10 : Digits[i] = a

DigitValue(a) == (CHOOSE i \in 1..10 : Digits[i] = a) - 1

IsNumber(s) == Len(s) > 0 /\ \A i \in 1..Len(s) : IsDigit(s[i])

\* decimal string to int (the port of a connection)
RECURSIVE Atoi(_)
Atoi(s) ==
    IF Len(s) = 0 THEN 0
    ELSE Atoi(SubSeq(s, 1, Len(s) - 1)) * 10 + DigitValue(s[Len(s)])

\* the %d verb of fmt.Sprintf, for a non-negative int
RECURSIVE Itoa(_)
Itoa(n) ==
    IF n < 10 THEN <<Digits[n + 1]>>
    ELSE Itoa(n \div 10) \o <<Digits[(n % 10) + 1]>>

\* strings.ToLower on the keys the model uses
ToLower(k) ==
    CASE k = "Ticket" -> "ticket"
      [] k = "TICKET" -> "ticket"
      [] k = "Host" -> "host"
      [] OTHER -> k

(***************************************************************************)
(* gRPC status values.  arg carries the value the message is formatted     *)
(* with (a key, a client type, the error of a primitive).                  *)
(***************************************************************************)
StatusOK == [code |-> "OK", msg |-> "", arg |-> EmptyStr]

StatusError(c, m, a) == [code |-> c, msg |-> m, arg |-> a]

(***************************************************************************)
(* Maps of the request (map[string]string).                                *)
(***************************************************************************)
EmptyMap == [k \in {} |-> EmptyStr]

HasKey(m, name) == \E k \in DOMAIN m : ToLower(k) = name

\* the values a range loop with a case-insensitive switch can end with
ValuesOf(m, name) == {m[k] : k \in {j \in DOMAIN m : ToLower(j) = name}}

\* a field that the secrets override: the values it can end with
FieldValues(volContext, volSecrets, name) ==
    IF HasKey(volSecrets, name) THEN ValuesOf(volSecrets, name)
    ELSE IF HasKey(volContext, name) THEN ValuesOf(volContext, name)
    ELSE {EmptyStr}

\* one value of a field (the keys of the connection fields have one spelling
\* in every map the model builds, so the choice is unique)
Field(volContext, volSecrets, name) ==
    CHOOSE v \in FieldValues(volContext, volSecrets, name) : TRUE

UnsupportedKeys(volContext, allow) ==
    {k \in DOMAIN volContext : ToLower(k) \notin allow}

(***************************************************************************)
(* Client types.                                                           *)
(***************************************************************************)
FuseType == Str("fuse")

WebdavType == Str("webdav")

NfsType == Str("nfs")

\* the volume-context key that selects the client
ClientKey == "driver"

\* ExtractIRODSClientType(volContext, defaultClient): one result, no error
ExtractIRODSClientType(volContext, defaultClient) ==
    IF HasKey(volContext, ClientKey)
    THEN CHOOSE v \in ValuesOf(volContext, ClientKey) : TRUE
    ELSE defaultClient

(***************************************************************************)
(* Mount plans: what a mount function hands to the mount primitive, or the *)
(* error it returns before reaching it.                                    *)
(***************************************************************************)
NoPlan(err) ==
    [ok |-> FALSE, err |-> err, source |-> EmptyStr, fsType |-> "",
     options |-> <<>>, sensitive |-> <<>>, stdin |-> <<>>]

Plan(source, fsType, options, sensitive, stdin) ==
    [ok |-> TRUE, err |-> StatusOK, source |-> source, fsType |-> fsType,
     options |-> options, sensitive |-> sensitive, stdin |-> stdin]

(***************************************************************************)
(* Parameter extraction.  Every connection field is read from the volume   *)
(* context and then from the secrets, which win; a volume-context key      *)
(* outside the allow-list of the back end and a missing required field are *)
(* InvalidArgument errors.  When several errors apply, which one is        *)
(* reported depends on the iteration order of the map.                     *)
(***************************************************************************)
DirectAllow == {ClientKey, "host", "user", "port", "zone", "path", "ticket", "password"}

DirectRequired == {"host", "user", "port", "zone", "path"}

WebdavAllow == {ClientKey, "url", "user", "password"}

WebdavRequired == {"url"}

NfsAllow == {ClientKey, "host", "path", "port"}

NfsRequired == {"host", "path"}

\* the well-known NFS port
DefaultNfsPort == 2049

ExtractionErrors(volContext, volSecrets, allow, required) ==
    {StatusError("InvalidArgument", "context key not supported", Str(k)) :
        k \in UnsupportedKeys(volContext, allow)}
    \cup {StatusError("InvalidArgument", "required field missing", Str(f)) :
        f \in {g \in required : Len(Field(volContext, volSecrets, g)) = 0}}
    \cup {StatusError("InvalidArgument", "port is not a number", Str("port")) :
        f \in {g \in {"port"} \cap allow :
                  /\ Len(Field(volContext, volSecrets, g)) > 0
                  /\ ~IsNumber(Field(volContext, volSecrets, g))}}

ExtractIRODSConnectionErrors(volContext, volSecrets) ==
    ExtractionErrors(volContext, volSecrets, DirectAllow, DirectRequired)

ExtractIRODSConnection(volContext, volSecrets) ==
    [User |-> Field(volContext, volSecrets, "user"),
     Password |-> Field(volContext, volSecrets, "password"),
     Hostname |-> Field(volContext, volSecrets, "host"),
     Port |-> Atoi(Field(volContext, volSecrets, "port")),
     Zone |-> Field(volContext, volSecrets, "zone"),
     Path |-> Field(volContext, volSecrets, "path")]

ExtractIRODSWebDAVConnectionErrors(volContext, volSecrets) ==
    ExtractionErrors(volContext, volSecrets, WebdavAllow, WebdavRequired)

ExtractIRODSWebDAVConnection(volContext, volSecrets) ==
    [URL |-> Field(volContext, volSecrets, "url"),
     User |-> Field(volContext, volSecrets, "user"),
     Password |-> Field(volContext, volSecrets, "password")]

ExtractIRODSNFSConnectionErrors(volContext, volSecrets) ==
    ExtractionErrors(volContext, volSecrets, NfsAllow, NfsRequired)

ExtractIRODSNFSConnection(volContext, volSecrets) ==
    [Hostname |-> Field(volContext, volSecrets, "host"),
     Path |-> Field(volContext, volSecrets, "path"),
     Port |-> IF Len(Field(volContext, volSecrets, "port")) = 0
              THEN DefaultNfsPort
              ELSE Atoi(Field(volContext, volSecrets, "port"))]

(***************************************************************************)
(* mountFuse.                                                              *)
(***************************************************************************)
LoopResult(ok, err, ticket) == [ok |-> ok, err |-> err, ticket |-> ticket]

\* the range loop over volContext: every key but ticket is an error, and the
\* loop returns at the first such key it meets
FuseContextLoop(volContext, ticket) ==
    LET bad == {k \in DOMAIN volContext : ToLower(k) # "ticket"}
    IN IF bad # {}
       THEN {LoopResult(FALSE,
                        StatusError("InvalidArgument",
                                    "Volume context property not supported", Str(k)),
                        ticket) : k \in bad}
       ELSE {LoopResult(TRUE, StatusOK, t) :
                t \in IF HasKey(volContext, "ticket")
                      THEN ValuesOf(volContext, "ticket") ELSE {ticket}}

\* the range loop over volSecrets rejecting the keys it does not know, as the
\* loop over volContext does
FuseSecretsLoopStrict(volSecrets, ticket) ==
    LET bad == {k \in DOMAIN volSecrets : ToLower(k) \notin DirectAllow}
    IN IF bad # {}
       THEN {LoopResult(FALSE,
                        StatusError("InvalidArgument",
                                    "Volume secret property not supported", Str(k)),
                        ticket) : k \in bad}
       ELSE {LoopResult(TRUE, StatusOK, t) :
                t \in IF HasKey(volSecrets, "ticket")
                      THEN ValuesOf(volSecrets, "ticket") ELSE {ticket}}

\* the range loop over volSecrets keeping a ticket the volume context gave
FuseSecretsLoopNoOverride(volSecrets, ticket) ==
    {LoopResult(TRUE, StatusOK, t) :
        t \in IF HasKey(volSecrets, "ticket") /\ Len(ticket) = 0
              THEN ValuesOf(volSecrets, "ticket") ELSE {ticket}}

\* the range loop over volSecrets: a ticket overrides, every other key is
\* skipped
FuseSecretsLoop(volSecrets, ticket) ==
    {LoopResult(TRUE, StatusOK, t) :
        t \in IF HasKey(volSecrets, "ticket")
              THEN ValuesOf(volSecrets, "ticket") ELSE {ticket}}

FuseSource(irodsConn) ==
    Str("irods://") \o irodsConn.User \o Str("@") \o irodsConn.Hostname
        \o Str(":") \o Itoa(irodsConn.Port) \o Str("/") \o irodsConn.Zone
        \o Str("/") \o Trim(irodsConn.Path, "/")

TicketOption(ticket) == Str("ticket=") \o ticket

\* mountFuse with the ticket leaked into the logged options
FusePlanLeaky(irodsConn, mntOptions, ticket) ==
    Plan(FuseSource(irodsConn), "irodsfs",
         mntOptions \o (IF Len(ticket) > 0 THEN <<TicketOption(ticket)>> ELSE <<>>),
         <<>>,
         <<irodsConn.Password>>)

FusePlan(irodsConn, mntOptions, ticket) ==
    Plan(FuseSource(irodsConn), "irodsfs",
         mntOptions,
         IF Len(ticket) > 0 THEN <<TicketOption(ticket)>> ELSE <<>>,
         <<irodsConn.Password>>)

mountFuse(volContext, volSecrets, mntOptions, targetPath) ==
    LET errs == ExtractIRODSConnectionErrors(volContext, volSecrets)
        irodsConn == ExtractIRODSConnection(volContext, volSecrets)
    IN IF errs # {} THEN {NoPlan(e) : e \in errs}
       ELSE UNION {
              IF ~c.ok THEN {NoPlan(c.err)}
              ELSE {IF ~s.ok THEN NoPlan(s.err)
                    ELSE FusePlan(irodsConn, mntOptions, s.ticket) :
                       s \in FuseSecretsLoop(volSecrets, c.ticket)} :
              c \in FuseContextLoop(volContext, EmptyStr)}

(***************************************************************************)
(* mountWebdav.                                                            *)
(***************************************************************************)
UsernameOption(user) == Str("username=") \o user

\* mountWebdav passing a credential as soon as a user is given
WebdavPlanUserAlone(irodsConn, mntOptions) ==
    LET both == Len(irodsConn.User) > 0
    IN Plan(irodsConn.URL, "davfs",
            mntOptions,
            IF both THEN <<UsernameOption(irodsConn.User)>> ELSE <<>>,
            IF both THEN <<irodsConn.Password>> ELSE <<>>)

WebdavPlan(irodsConn, mntOptions) ==
    LET both == Len(irodsConn.User) > 0 /\ Len(irodsConn.Password) > 0
    IN Plan(irodsConn.URL, "davfs",
            mntOptions,
            IF both THEN <<UsernameOption(irodsConn.User)>> ELSE <<>>,
            IF both THEN <<irodsConn.Password>> ELSE <<>>)

mountWebdav(volContext, volSecrets, mntOptions, targetPath) ==
    LET errs == ExtractIRODSWebDAVConnectionErrors(volContext, volSecrets)
    IN IF errs # {} THEN {NoPlan(e) : e \in errs}
       ELSE {WebdavPlan(ExtractIRODSWebDAVConnection(volContext, volSecrets),
                        mntOptions)}

(***************************************************************************)
(* mountNfs.                                                               *)
(***************************************************************************)
PortOption(port) == Str("port=") \o Itoa(port)

\* mountNfs with the port option added whatever the port
NfsPlanAlwaysPort(irodsConn, mntOptions) ==
    Plan(irodsConn.Hostname \o Str(":") \o irodsConn.Path, "nfs",
         mntOptions \o <<PortOption(irodsConn.Port)>>,
         <<>>, <<>>)

NfsPlan(irodsConn, mntOptions) ==
    Plan(irodsConn.Hostname \o Str(":") \o irodsConn.Path, "nfs",
         mntOptions \o (IF irodsConn.Port # DefaultNfsPort
                        THEN <<PortOption(irodsConn.Port)>> ELSE <<>>),
         <<>>, <<>>)

mountNfs(volContext, volSecrets, mntOptions, targetPath) ==
    LET errs == ExtractIRODSNFSConnectionErrors(volContext, volSecrets)
    IN IF errs # {} THEN {NoPlan(e) : e \in errs}
       ELSE {NfsPlan(ExtractIRODSNFSConnection(volContext, volSecrets),
                     mntOptions)}

(***************************************************************************)
(* Requests.                                                               *)
(***************************************************************************)
Paths == {"/mnt/a", "/mnt/b"}

DirStates == {"absent", "empty", "nonempty"}

NoCapability ==
    [present |-> FALSE, accessMode |-> "", hasMount |-> FALSE, mountFlags |-> <<>>]

MountCapability(mode, flags) ==
    [present |-> TRUE, accessMode |-> mode, hasMount |-> TRUE, mountFlags |-> flags]

BlockCapability(mode) ==
    [present |-> TRUE, accessMode |-> mode, hasMount |-> FALSE, mountFlags |-> <<>>]

SupportedAccessModes == {"MULTI_NODE_MULTI_WRITER"}

isValidVolumeCapabilities(volCap) == volCap.accessMode \in SupportedAccessModes

PublishRequest(volID, targetPath, volCap, readonly, volContext, volSecrets) ==
    [volumeId |-> volID, targetPath |-> targetPath, volumeCapability |-> volCap,
     readonly |-> readonly, volumeContext |-> volContext, secrets |-> volSecrets]

\* a NodeUnpublishVolumeRequest has the volume id and the target path only
UnpublishRequest(volID, targetPath) ==
    PublishRequest(volID, targetPath, NoCapability, FALSE, EmptyMap, EmptyMap)

\* NodePublishVolume without the check of the volume capability
ValidatePublishNoCapability(req) ==
    IF req.volumeId = ""
    THEN StatusError("InvalidArgument", "Volume ID not provided", EmptyStr)
    ELSE IF req.targetPath = ""
    THEN StatusError("InvalidArgument", "Target path not provided", EmptyStr)
    ELSE StatusOK

ValidatePublish(req) ==
    IF req.volumeId = ""
    THEN StatusError("InvalidArgument", "Volume ID not provided", EmptyStr)
    ELSE IF req.targetPath = ""
    THEN StatusError("InvalidArgument", "Target path not provided", EmptyStr)
    ELSE IF ~req.volumeCapability.present
    THEN StatusError("InvalidArgument", "Volume capability not provided", EmptyStr)
    ELSE IF ~isValidVolumeCapabilities(req.volumeCapability)
    THEN StatusError("InvalidArgument", "Volume capability not supported", EmptyStr)
    ELSE StatusOK

\* NodeUnpublishVolume's validation without the volume-id check
ValidateUnpublishNoVolumeId(req) ==
    IF req.targetPath = ""
    THEN StatusError("InvalidArgument", "Target path not provided", EmptyStr)
    ELSE StatusOK

ValidateUnpublish(req) ==
    IF req.volumeId = ""
    THEN StatusError("InvalidArgument", "Volume ID not provided", EmptyStr)
    ELSE IF req.targetPath = ""
    THEN StatusError("InvalidArgument", "Target path not provided", EmptyStr)
    ELSE StatusOK

\* a membership test that never finds the option
hasOptionNever(options, opt) == FALSE

hasOption(options, opt) == \E i \in 1..Len(options) : options[i] = opt

RECURSIVE AppendFlags(_, _)
AppendFlags(mountOptions, flags) ==
    IF Len(flags) = 0 THEN mountOptions
    ELSE AppendFlags(IF hasOption(mountOptions, Head(flags))
                     THEN mountOptions
                     ELSE Append(mountOptions, Head(flags)),
                     Tail(flags))

\* the mountOptions NodePublishVolume hands to the mount function
PublishMountOptions(req) ==
    LET ro == IF req.readonly THEN <<Str("ro")>> ELSE <<>>
    IN IF req.volumeCapability.hasMount
       THEN AppendFlags(ro, req.volumeCapability.mountFlags)
       ELSE ro

\* the switch of NodePublishVolume behind an already-mounted guard: a target
\* path that is a mount point is answered OK without a mount
DispatchGuarded(irodsClient, volContext, volSecrets, mountOptions, targetPath) ==
    IF mounts[targetPath] > 0 THEN {NoPlan(StatusOK)}
    ELSE CASE irodsClient = FuseType ->
                 mountFuse(volContext, volSecrets, mountOptions, targetPath)
           [] irodsClient = WebdavType ->
                 mountWebdav(volContext, volSecrets, mountOptions, targetPath)
           [] irodsClient = NfsType ->
                 mountNfs(volContext, volSecrets, mountOptions, targetPath)
           [] OTHER ->
                 {NoPlan(StatusError("Internal", "unknown driver type", irodsClient))}

\* the switch of NodePublishVolume on the client type
Dispatch(irodsClient, volContext, volSecrets, mountOptions, targetPath) ==
    CASE irodsClient = FuseType ->
            mountFuse(volContext, volSecrets, mountOptions, targetPath)
      [] irodsClient = WebdavType ->
            mountWebdav(volContext, volSecrets, mountOptions, targetPath)
      [] irodsClient = NfsType ->
            mountNfs(volContext, volSecrets, mountOptions, targetPath)
      [] OTHER ->
            {NoPlan(StatusError("Internal", "unknown driver type", irodsClient))}

(***************************************************************************)
(* The primitives: directory, mount table.                                 *)
(***************************************************************************)
\* MakeDir on success: the directory exists afterwards
MakeDirEffect(dir) == IF dir = "absent" THEN "empty" ELSE dir

\* a recursive removal: it removes a directory with its contents
RemoveAllOutcomes(dir, mountCount) ==
    {[ok |-> FALSE, dir |-> dir]}
    \cup (IF dir # "absent" /\ mountCount = 0
          THEN {[ok |-> TRUE, dir |-> "absent"]} ELSE {})

\* os.Remove(targetPath): rmdir removes an empty directory that is no mount
\* point, and can fail on any directory
RemoveOutcomes(dir, mountCount) ==
    {[ok |-> FALSE, dir |-> dir]}
    \cup (IF dir = "empty" /\ mountCount = 0
          THEN {[ok |-> TRUE, dir |-> "absent"]} ELSE {})

\* errors of the mount primitive
MountErrors == {Str("exit status 32"), Str("exit status 1")}

\* errors of os.MkdirAll, of the mount-table query and of the unmount primitive
MkdirError == Str("permission denied")

QueryError == Str("cannot read /proc/mounts")

UnmountError == Str("target is busy")

\* an unmount error that is logged and answered with success
CouldNotUnmountIgnored(err) == StatusOK

\* the unmount error returned by NodeUnpublishVolume, codes.Internal
CouldNotUnmount(err) == StatusError("Internal", "Could not unmount", err)

\* the mount error wrapped by the mount function, codes.Internal
CouldNotMount(err) == StatusError("Internal", "Could not mount", err)

\* NodePublishVolume's error branch with the result of os.Remove returned
\* when the removal fails
CleanupResultSurfaced(err, removed) ==
    IF removed.ok THEN err
    ELSE StatusError("Internal", "Could not remove dir", EmptyStr)

\* NodePublishVolume's error branch: os.Remove(targetPath); return nil, err
CleanupResult(err, removed) == err

\* NodeUnpublishVolume with the reference-count test dropped
NotMountedNever(refCount) == FALSE

\* NodeUnpublishVolume taking one reference for none
NotMountedOffByOne(refCount) == refCount <= 1

\* NodeUnpublishVolume: refCount == 0
NotMounted(refCount) == refCount = 0

(***************************************************************************)
(* The record of the last call: request, response, and the calls it made   *)
(* to the primitives.                                                      *)
(***************************************************************************)
NoRequest == UnpublishRequest("", "")

CallRecord(op, req) ==
    [op |-> op, req |-> req, resp |-> StatusOK,
     mkdirCalls |-> 0, mkdirOk |-> FALSE, removeCalls |-> 0, removeOk |-> FALSE,
     mountCalls |-> <<>>, mountErr |-> EmptyStr,
     queryCalls |-> 0, queryOk |-> FALSE, refCount |-> 0, unmountCalls |-> 0,
     preDir |-> IF req.targetPath \in Paths THEN dirs[req.targetPath] ELSE "absent",
     preMounts |-> IF req.targetPath \in Paths THEN mounts[req.targetPath] ELSE 0]

\* a MakeDir failure followed by the removal the other error branches do
MakeDirFailedWithCleanup(rec) ==
    [rec EXCEPT !.resp = StatusError("Internal", "Could not create dir", MkdirError),
                !.mkdirCalls = 1,
                !.removeCalls = 1]

\* the error branch of the MakeDir call: the call returns at once
MakeDirFailed(rec) ==
    [rec EXCEPT !.resp = StatusError("Internal", "Could not create dir", MkdirError),
                !.mkdirCalls = 1]

(***************************************************************************)
(* NodePublishVolume.                                                      *)
(***************************************************************************)
Publish(req) ==
    LET rec == CallRecord("publish", req)
        t == req.targetPath
        v == ValidatePublish(req)
    IN IF v.code # "OK"
       THEN /\ last' = [rec EXCEPT !.resp = v]
            /\ UNCHANGED <<dirs, mounts, everMounted>>
       ELSE \/ \* MakeDir fails
               /\ last' = MakeDirFailed(rec)
               /\ UNCHANGED <<dirs, mounts, everMounted>>
            \/ \* MakeDir succeeds, the mount function runs
               \E plan \in Dispatch(ExtractIRODSClientType(req.volumeContext, FuseType),
                                    req.volumeContext, req.secrets,
                                    PublishMountOptions(req), t) :
                 LET made == MakeDirEffect(dirs[t])
                 IN IF ~plan.ok
                    THEN \E removed \in RemoveOutcomes(made, mounts[t]) :
                           /\ dirs' = [dirs EXCEPT ![t] = removed.dir]
                           /\ last' = [rec EXCEPT
                                         !.resp = CleanupResult(plan.err, removed),
                                         !.mkdirCalls = 1,
                                         !.mkdirOk = TRUE,
                                         !.removeCalls = 1,
                                         !.removeOk = removed.ok]
                           /\ UNCHANGED <<mounts, everMounted>>
                    ELSE \/ \* the mount primitive succeeds
                            /\ mounts[t] < MaxMounts
                            /\ dirs' = [dirs EXCEPT ![t] = made]
                            /\ mounts' = [mounts EXCEPT ![t] = @ + 1]
                            /\ everMounted' = everMounted \cup {t}
                            /\ last' = [rec EXCEPT
                                          !.mkdirCalls = 1,
                                          !.mkdirOk = TRUE,
                                          !.mountCalls = <<plan>>]
                         \/ \* the mount primitive fails
                            \E e \in MountErrors :
                              \E removed \in RemoveOutcomes(made, mounts[t]) :
                                /\ dirs' = [dirs EXCEPT ![t] = removed.dir]
                                /\ last' = [rec EXCEPT
                                              !.resp = CleanupResult(CouldNotMount(e),
                                                                     removed),
                                              !.mkdirCalls = 1,
                                              !.mkdirOk = TRUE,
                                              !.mountCalls = <<plan>>,
                                              !.mountErr = e,
                                              !.removeCalls = 1,
                                              !.removeOk = removed.ok]
                                /\ UNCHANGED <<mounts, everMounted>>

\* an unmount followed by the removal of the mount point once nothing is
\* mounted on it
UnmountDoneRemovesDir(t) ==
    /\ mounts' = [mounts EXCEPT ![t] = @ - 1]
    /\ dirs' = [dirs EXCEPT ![t] = IF mounts[t] = 1 THEN "absent" ELSE @]
    /\ UNCHANGED everMounted

\* the effect of a successful Unmount and of the return after it: the
\* topmost mount of the target path is detached, nothing else changes
UnmountDone(t) ==
    /\ mounts' = [mounts EXCEPT ![t] = @ - 1]
    /\ UNCHANGED <<dirs, everMounted>>

(***************************************************************************)
(* NodeUnpublishVolume.                                                    *)
(***************************************************************************)
Unpublish(req) ==
    LET rec == CallRecord("unpublish", req)
        t == req.targetPath
        v == ValidateUnpublish(req)
    IN IF v.code # "OK"
       THEN /\ last' = [rec EXCEPT !.resp = v]
            /\ UNCHANGED <<dirs, mounts, everMounted>>
       ELSE \/ \* GetDeviceName fails
               /\ last' = [rec EXCEPT
                             !.resp = StatusError("Internal",
                                                  "failed to check if volume is mounted",
                                                  QueryError),
                             !.queryCalls = 1]
               /\ UNCHANGED <<dirs, mounts, everMounted>>
            \/ \* GetDeviceName returns the reference count
               LET refCount == mounts[t]
               IN IF NotMounted(refCount)
                  THEN /\ last' = [rec EXCEPT !.queryCalls = 1, !.queryOk = TRUE,
                                              !.refCount = refCount]
                       /\ UNCHANGED <<dirs, mounts, everMounted>>
                  ELSE \/ \* Unmount succeeds: the topmost mount is gone
                          /\ mounts[t] > 0
                          /\ UnmountDone(t)
                          /\ last' = [rec EXCEPT !.queryCalls = 1,
                                                 !.queryOk = TRUE,
                                                 !.refCount = refCount,
                                                 !.unmountCalls = 1]
                       \/ \* Unmount fails
                          /\ last' = [rec EXCEPT
                                        !.resp = CouldNotUnmount(UnmountError),
                                        !.queryCalls = 1,
                                        !.queryOk = TRUE,
                                        !.refCount = refCount,
                                        !.unmountCalls = 1]
                          /\ UNCHANGED <<dirs, mounts, everMounted>>

(***************************************************************************)
(* Values and maps of the requests.                                        *)
(***************************************************************************)
Alice == Str("alice")
DataHost == Str("data.example.org")
Port1247 == <<"1", "2", "4", "7">>
Port2049 == <<"2", "0", "4", "9">>
Port02049 == <<"0", "2", "0", "4", "9">>
Port2050 == <<"2", "0", "5", "0">>
TempZone == Str("tempZone")
HomePath == <<"/", "tempZone", "/", "home", "/", "alice">>
Pw123 == Str("pw123")
TicketA == Str("ticket-a")
TicketB == Str("ticket-b")
TicketC == Str("ticket-c")
DavUrl == Str("https://dav.example.org/zone")
NfsHost == Str("nfs.example.org")
ExportPath == <<"/", "export", "/", "data">>

DirectBase ==
    ("host" :> DataHost) @@ ("user" :> Alice) @@ ("port" :> Port1247)
        @@ ("zone" :> TempZone) @@ ("path" :> HomePath) @@ ("password" :> Pw123)

WebdavBase == ("url" :> DavUrl) @@ ("user" :> Alice) @@ ("password" :> Pw123)

NfsBase(port) == ("host" :> NfsHost) @@ ("path" :> ExportPath) @@ ("port" :> port)

NfsBaseNoPort == ("host" :> NfsHost) @@ ("path" :> ExportPath)

Restrict(m, keys) == [k \in (DOMAIN m) \cap keys |-> m[k]]

\* where the fields of a base map are put: <<volume context, secrets>>
Placements(base) ==
    {<<base, EmptyMap>>, <<EmptyMap, base>>,
     <<Restrict(base, (DOMAIN base) \ {"password"}), Restrict(base, {"password"})>>}

\* a pair of maps with at most one field dropped or emptied
Perturbed(pair) ==
    {pair}
    \cup {<<Restrict(pair[1], (DOMAIN pair[1]) \ {k}),
            Restrict(pair[2], (DOMAIN pair[2]) \ {k})>> :
             k \in (DOMAIN pair[1]) \cup (DOMAIN pair[2])}
    \cup {<<[j \in DOMAIN pair[1] |-> IF j = k THEN EmptyStr ELSE pair[1][j]],
            [j \in DOMAIN pair[2] |-> IF j = k THEN EmptyStr ELSE pair[2][j]]>> :
             k \in (DOMAIN pair[1]) \cup (DOMAIN pair[2])}

\* keys added to a pair of maps: <<map, key, value>>
ExtraPool ==
    {<<1, "ticket", TicketA>>, <<1, "Ticket", TicketB>>, <<2, "ticket", TicketC>>,
     <<2, "TICKET", TicketB>>, <<1, "bogus", Str("x")>>, <<2, "bogus", Str("x")>>}

ExtraSets == {e \in SUBSET ExtraPool : Cardinality(e) <= MaxExtra}

ExtraMap(extras, which) ==
    [k \in {e[2] : e \in {x \in extras : x[1] = which}} |->
        (CHOOSE e \in extras : e[1] = which /\ e[2] = k)[3]]

WithExtras(pair, extras) ==
    <<ExtraMap(extras, 1) @@ pair[1], ExtraMap(extras, 2) @@ pair[2]>>

WithClient(pair, client) == <<(ClientKey :> client) @@ pair[1], pair[2]>>

BaseMaps ==
    UNION {Perturbed(p) : p \in Placements(DirectBase)}
    \cup {WithClient(q, FuseType) :
             q \in UNION {Perturbed(p) : p \in Placements(DirectBase)}}
    \cup {WithClient(q, WebdavType) :
             q \in UNION {Perturbed(p) : p \in Placements(WebdavBase)}}
    \cup {WithClient(q, NfsType) :
             q \in UNION {Perturbed(p) :
                      p \in UNION {Placements(b) :
                               b \in {NfsBaseNoPort} \cup
                                     {NfsBase(x) : x \in {Port2049, Port02049, Port2050}}}}}
    \cup {WithClient(<<EmptyMap, DirectBase>>, Str("ftp"))}
    \cup {<<"ticket" :> TicketA, DirectBase>>,
          <<"ticket" :> TicketA, ("ticket" :> EmptyStr) @@ DirectBase>>}

RichMaps == {WithExtras(m, e) : m \in BaseMaps, e \in ExtraSets}

\* maps that reach the mount primitive of each back end, and some that do not
FewMaps ==
    {<<EmptyMap, DirectBase>>,
     <<"ticket" :> TicketA, DirectBase>>,
     <<Restrict(DirectBase, (DOMAIN DirectBase) \ {"password"}),
       Restrict(DirectBase, {"password"})>>,
     WithClient(<<WebdavBase, EmptyMap>>, WebdavType),
     WithClient(<<NfsBaseNoPort, EmptyMap>>, NfsType),
     WithClient(<<NfsBase(Port2049), EmptyMap>>, NfsType),
     WithClient(<<NfsBase(Port2050), EmptyMap>>, NfsType),
     WithClient(<<EmptyMap, DirectBase>>, Str("ftp"))}

FlagPool == {Str("ro"), Str("noatime"), PortOption(2049), TicketOption(TicketA)}

RECURSIVE SeqsUpTo(_, _)
SeqsUpTo(S, n) ==
    IF n = 0 THEN {<<>>}
    ELSE SeqsUpTo(S, n - 1)
         \cup {Append(q, x) : q \in {r \in SeqsUpTo(S, n - 1) : Len(r) = n - 1}, x \in S}

RichFlags == SeqsUpTo(FlagPool, MaxFlags)

FewFlags == {<<>>, <<Str("noatime")>>}

SharedMode == "MULTI_NODE_MULTI_WRITER"

\* the requests of the one-call specification
RichRequests ==
    {PublishRequest("vol-1", "/mnt/a", MountCapability(SharedMode, f), ro, m[1], m[2]) :
        f \in FewFlags, ro \in {FALSE}, m \in RichMaps}
    \cup {PublishRequest("vol-1", "/mnt/a", MountCapability(SharedMode, f), ro, m[1], m[2]) :
        f \in RichFlags, ro \in BOOLEAN, m \in FewMaps}

\* requests that fail validation
InvalidPublishRequests ==
    {PublishRequest(id, t, c, FALSE, EmptyMap, DirectBase) :
        id \in {"", "vol-1"}, t \in {"", "/mnt/a"},
        c \in {NoCapability, MountCapability("UNKNOWN", <<>>),
               MountCapability(SharedMode, <<>>)}}

\* the requests of the lifecycle specification
LifecycleMaps ==
    {<<EmptyMap, DirectBase>>,
     <<Restrict(DirectBase, (DOMAIN DirectBase) \ {"password"}),
       Restrict(DirectBase, {"password"})>>,
     WithClient(<<NfsBase(Port2050), EmptyMap>>, NfsType),
     WithClient(<<EmptyMap, DirectBase>>, Str("ftp"))}

LifecyclePublishRequests ==
    InvalidPublishRequests
    \cup {PublishRequest("vol-1", t, c, FALSE, m[1], m[2]) :
             t \in Paths, m \in LifecycleMaps,
             c \in {MountCapability(SharedMode, <<>>), BlockCapability(SharedMode)}}

UnpublishRequests ==
    {UnpublishRequest(id, t) : id \in {"", "vol-1"}, t \in {""} \cup Paths}

(***************************************************************************)
(* Specifications.                                                         *)
(***************************************************************************)
NoPending == [present |-> FALSE, req |-> NoRequest]

InitRecord ==
    [op |-> "none", req |-> NoRequest, resp |-> StatusOK,
     mkdirCalls |-> 0, mkdirOk |-> FALSE, removeCalls |-> 0, removeOk |-> FALSE,
     mountCalls |-> <<>>, mountErr |-> EmptyStr,
     queryCalls |-> 0, queryOk |-> FALSE, refCount |-> 0, unmountCalls |-> 0,
     preDir |-> "absent", preMounts |-> 0]

\* a node with nothing mounted; a target directory may exist already
\* the gRPC goroutines that can run NodePublishVolume at the same time
Callers == {"A", "B"}

\* a caller outside a call
IdleCall == [pc |-> "idle", rec |-> InitRecord, err |-> StatusOK, dirAtMount |-> "absent"]

Init ==
    /\ dirs \in [Paths -> DirStates]
    /\ mounts = [p \in Paths |-> 0]
    /\ everMounted = {}
    /\ last = InitRecord
    /\ pending = NoPending
    /\ calls = [p \in Callers |-> IdleCall]

NodePublishVolume ==
    /\ \E req \in LifecyclePublishRequests : Publish(req)
    /\ UNCHANGED <<pending, calls>>

NodeUnpublishVolume ==
    /\ \E req \in UnpublishRequests : Unpublish(req)
    /\ UNCHANGED <<pending, calls>>

Next == NodePublishVolume \/ NodeUnpublishVolume

\* the life of a node: any sequence of publish and unpublish calls
Spec == Init /\ [][Next]_vars

\* one publish call on a request drawn from the rich set
InitRequest ==
    /\ dirs \in {[p \in Paths |-> IF p = "/mnt/a" THEN d ELSE "absent"] : d \in DirStates}
    /\ mounts = [p \in Paths |-> 0]
    /\ everMounted = {}
    /\ last = InitRecord
    /\ pending \in {[present |-> TRUE, req |-> r] : r \in RichRequests}
    /\ calls = [p \in Callers |-> IdleCall]

HandlePending ==
    /\ pending.present
    /\ Publish(pending.req)
    /\ pending' = NoPending
    /\ UNCHANGED calls

NextRequest == HandlePending

SpecRequest == InitRequest /\ [][NextRequest]_vars

(***************************************************************************)
(* NodePublishVolume step by step.  The handler takes no lock, so between  *)
(* its MakeDir call, its mount function and its os.Remove call the steps   *)
(* of another call can run.                                                *)
(***************************************************************************)
\* the requests of the concurrent callers: they pass the validation
ConcurrentRequests ==
    {PublishRequest("vol-1", t, MountCapability(SharedMode, <<>>), FALSE, m[1], m[2]) :
        t \in Paths,
        m \in {<<EmptyMap, DirectBase>>, WithClient(<<EmptyMap, DirectBase>>, Str("ftp"))}}

\* the error of the mount primitive on a mount point that does not exist
MountPointMissing == Str("mount point does not exist")

\* validation and the MakeDir call
PubMakeDir(p) ==
    /\ calls[p].pc = "idle"
    /\ \E req \in ConcurrentRequests :
         LET rec == CallRecord("publish", req)
             t == req.targetPath
         IN \/ /\ calls' = [calls EXCEPT ![p] = [IdleCall EXCEPT
                                                   !.pc = "done",
                                                   !.rec = MakeDirFailed(rec)]]
               /\ UNCHANGED dirs
            \/ /\ dirs' = [dirs EXCEPT ![t] = MakeDirEffect(dirs[t])]
               /\ calls' = [calls EXCEPT ![p] = [IdleCall EXCEPT
                                                   !.pc = "made",
                                                   !.rec = [rec EXCEPT
                                                              !.mkdirCalls = 1,
                                                              !.mkdirOk = TRUE]]]
    /\ UNCHANGED <<mounts, everMounted, last, pending>>

\* the mount function of the switch: extraction, then the mount primitive
PubMount(p) ==
    /\ calls[p].pc = "made"
    /\ LET c == calls[p]
           req == c.rec.req
           t == req.targetPath
       IN \E plan \in Dispatch(ExtractIRODSClientType(req.volumeContext, FuseType),
                               req.volumeContext, req.secrets,
                               PublishMountOptions(req), t) :
            IF ~plan.ok
            THEN /\ calls' = [calls EXCEPT ![p] = [c EXCEPT !.pc = "cleanup",
                                                            !.err = plan.err]]
                 /\ UNCHANGED <<dirs, mounts, everMounted>>
            ELSE \/ \* the mount primitive succeeds
                    /\ dirs[t] # "absent"
                    /\ mounts[t] < MaxMounts
                    /\ mounts' = [mounts EXCEPT ![t] = @ + 1]
                    /\ everMounted' = everMounted \cup {t}
                    /\ calls' = [calls EXCEPT ![p] =
                                   [c EXCEPT !.pc = "done",
                                             !.rec.mountCalls = <<plan>>,
                                             !.dirAtMount = dirs[t]]]
                    /\ UNCHANGED dirs
                 \/ \* the mount primitive fails
                    \E e \in MountErrors \cup (IF dirs[t] = "absent"
                                               THEN {MountPointMissing} ELSE {}) :
                      /\ calls' = [calls EXCEPT ![p] =
                                     [c EXCEPT !.pc = "cleanup",
                                               !.err = CouldNotMount(e),
                                               !.rec.mountCalls = <<plan>>,
                                               !.rec.mountErr = e,
                                               !.dirAtMount = dirs[t]]]
                      /\ UNCHANGED <<dirs, mounts, everMounted>>
    /\ UNCHANGED <<last, pending>>

\* os.Remove(targetPath) of the error branch, and the return of the error
PubCleanup(p) ==
    /\ calls[p].pc = "cleanup"
    /\ LET c == calls[p]
           t == c.rec.req.targetPath
       IN \E removed \in RemoveOutcomes(dirs[t], mounts[t]) :
            /\ dirs' = [dirs EXCEPT ![t] = removed.dir]
            /\ calls' = [calls EXCEPT ![p] =
                           [c EXCEPT !.pc = "done",
                                     !.rec.resp = CleanupResult(c.err, removed),
                                     !.rec.removeCalls = 1,
                                     !.rec.removeOk = removed.ok]]
    /\ UNCHANGED <<mounts, everMounted, last, pending>>

\* the response is sent; the caller can start another call
PubReturn(p) ==
    /\ calls[p].pc = "done"
    /\ calls' = [calls EXCEPT ![p] = IdleCall]
    /\ UNCHANGED <<dirs, mounts, everMounted, last, pending>>

NextConcurrent ==
    \E p \in Callers : PubMakeDir(p) \/ PubMount(p) \/ PubCleanup(p) \/ PubReturn(p)

\* publish calls of several callers, interleaved at their system calls
SpecConcurrent == Init /\ [][NextConcurrent]_vars

(***************************************************************************)
(* Properties.                                                             *)
(***************************************************************************)
\* the last call passed the validation of its request
PublishValidated ==
    /\ last.op = "publish"
    /\ last.req.volumeId # ""
    /\ last.req.targetPath # ""
    /\ last.req.volumeCapability.present
    /\ last.req.volumeCapability.accessMode \in SupportedAccessModes

UnpublishValidated ==
    /\ last.op = "unpublish"
    /\ last.req.volumeId # ""
    /\ last.req.targetPath # ""

\* the last call handed a plan to the mount primitive
MountInvoked == last.op = "publish" /\ Len(last.mountCalls) = 1

\* C1: a NodeUnpublishVolume call with a volume id and a target path whose
\* reference-count query succeeds and returns 0 returns success, calls the
\* unmount primitive zero times and leaves the mount table as it was,
\* whatever calls came before it.
C1_UnpublishNotMounted ==
    (UnpublishValidated /\ last.queryOk /\ last.preMounts = 0)
        => /\ last.resp.code = "OK"
           /\ last.unmountCalls = 0
           /\ mounts[last.req.targetPath] = 0

\* C1 witness: after publishes elsewhere on the node, an unpublish of a path
\* that was never mounted has returned success.
C1_Witness ==
    /\ UnpublishValidated /\ last.queryOk /\ last.preMounts = 0
    /\ last.req.targetPath \notin everMounted
    /\ everMounted # {}
    /\ last.resp.code = "OK"

\* C2 (as stated): whenever NodePublishVolume fails with a request-validation
\* or parameter-extraction error (InvalidArgument), the call has neither
\* created nor removed the target directory nor invoked the mount primitive.
C2_NoSideEffectBeforeAnyInvalidArgument ==
    (last.op = "publish" /\ last.resp.code = "InvalidArgument")
        => /\ last.mkdirCalls = 0
           /\ last.removeCalls = 0
           /\ last.mountCalls = <<>>

\* C2 (amended): a request that fails validation is answered InvalidArgument
\* with no directory created or removed and no mount; a parameter-extraction
\* error is met after the target directory has been ensured, the call then
\* attempts to remove that directory, and the mount primitive is not invoked.
C2_ValidationBeforeExtractionAfterMakeDir ==
    /\ (last.op = "publish" /\ ~PublishValidated)
          => /\ last.resp.code = "InvalidArgument"
             /\ last.mkdirCalls = 0
             /\ last.removeCalls = 0
             /\ last.mountCalls = <<>>
             /\ last.req.targetPath \in Paths
                   => dirs[last.req.targetPath] = last.preDir
    /\ (PublishValidated /\ last.resp.code = "InvalidArgument")
          => /\ last.mkdirCalls = 1 /\ last.mkdirOk
             /\ last.removeCalls = 1
             /\ last.mountCalls = <<>>

\* C2 witness: an extraction error on a target directory that did not exist:
\* the directory was made and removed again within the call.
C2_Witness ==
    /\ PublishValidated /\ last.resp.code = "InvalidArgument"
    /\ last.preDir = "absent"
    /\ last.mkdirOk /\ last.removeCalls = 1 /\ last.removeOk
    /\ dirs[last.req.targetPath] = "absent"

\* C3: when NodePublishVolume has ensured the target directory and the mount
\* primitive returns an error, the call attempts the removal of the target
\* directory once and returns Internal carrying the mount error, whether the
\* removal succeeded or not.
C3_MountErrorSurvivesCleanup ==
    (MountInvoked /\ last.mountErr # EmptyStr)
        => /\ last.mkdirOk
           /\ last.removeCalls = 1
           /\ last.resp.code = "Internal"
           /\ last.resp.msg = "Could not mount"
           /\ last.resp.arg = last.mountErr

\* C3 witness: the mount failed, the removal failed too, and the caller sees
\* the mount error.
C3_Witness ==
    /\ MountInvoked /\ last.mountErr \in MountErrors
    /\ last.removeCalls = 1 /\ ~last.removeOk
    /\ last.resp.arg = last.mountErr

\* C4 (as stated): once a NodeUnpublishVolume call on a path returns success,
\* the path is unmounted (reference count 0), after any sequence of calls.
C4_UnmountedAfterUnpublish ==
    (UnpublishValidated /\ last.resp.code = "OK")
        => mounts[last.req.targetPath] = 0

\* C4 (amended): a successful NodeUnpublishVolume removes exactly one of the
\* mounts stacked on the path (none when there was none): the path is
\* unmounted afterwards if and only if at most one mount was on it.
C4_UnpublishRemovesOneMount ==
    (UnpublishValidated /\ last.resp.code = "OK")
        => /\ mounts[last.req.targetPath] =
                 IF last.preMounts = 0 THEN 0 ELSE last.preMounts - 1
           /\ last.unmountCalls = IF last.preMounts = 0 THEN 0 ELSE 1

\* C4 witness: two publishes in a row, then a successful unpublish: one mount
\* is left on the path.
C4_Witness ==
    /\ UnpublishValidated /\ last.resp.code = "OK"
    /\ last.preMounts = 2
    /\ mounts[last.req.targetPath] = 1

\* the client type the last request selects, and the lists of its back end
LastClient == ExtractIRODSClientType(last.req.volumeContext, FuseType)

KnownClient == LastClient \in {FuseType, WebdavType, NfsType}

AllowOf(client) ==
    CASE client = FuseType -> DirectAllow
      [] client = WebdavType -> WebdavAllow
      [] client = NfsType -> NfsAllow

RequiredOf(client) ==
    CASE client = FuseType -> DirectRequired
      [] client = WebdavType -> WebdavRequired
      [] client = NfsType -> NfsRequired

\* the last call got past validation and MakeDir, to the mount function
ReachedMountFunction == PublishValidated /\ last.mkdirOk

\* C5 (as stated): a publish whose client discriminator is none of fuse,
\* webdav, nfs fails with InvalidArgument naming the offending value.
C5_UnknownClientInvalidArgument ==
    (ReachedMountFunction /\ ~KnownClient)
        => /\ last.resp.code = "InvalidArgument"
           /\ last.resp.arg = LastClient

\* C6 (as stated): for each back end, the publish path fails with
\* InvalidArgument when a required field is absent or empty, and reaches the
\* mount primitive when all required fields are present and every key is a
\* required or optional key of the back end (the direct back end being the
\* one selected without a discriminator).
C6_ExtractionByRequiredFields ==
    (ReachedMountFunction /\ KnownClient)
        => LET ctx == last.req.volumeContext
               sec == last.req.secrets
               missing == \E f \in RequiredOf(LastClient) :
                              Len(Field(ctx, sec, f)) = 0
               onlyKnown == /\ \A k \in (DOMAIN ctx) \cup (DOMAIN sec) :
                                 ToLower(k) \in AllowOf(LastClient)
                            /\ LastClient = FuseType => ~HasKey(ctx, ClientKey)
           IN /\ missing => (last.resp.code = "InvalidArgument" /\ ~MountInvoked)
              /\ (~missing /\ onlyKnown) => MountInvoked

\* the secrets without the keys the back end does not know
KnownSecrets(client, volSecrets) ==
    Restrict(volSecrets, {k \in DOMAIN volSecrets : ToLower(k) \in AllowOf(client)})

\* C7: a volume-context key that, lower-cased, is not on the allow-list of
\* the selected back end makes the publish fail with InvalidArgument, the mount
\* primitive not invoked; and a publish that does not reach the mount
\* primitive does not reach it either with the unrecognized keys taken out
\* of its secrets: such keys never cause the failure.
C7_UnsupportedContextKeyRejected ==
    (ReachedMountFunction /\ KnownClient)
        => LET ctx == last.req.volumeContext
               sec == last.req.secrets
           IN /\ UnsupportedKeys(ctx, AllowOf(LastClient)) # {}
                    => (last.resp.code = "InvalidArgument" /\ ~MountInvoked)
              /\ ~MountInvoked
                    => \A plan \in Dispatch(LastClient, ctx,
                                            KnownSecrets(LastClient, sec),
                                            PublishMountOptions(last.req),
                                            last.req.targetPath) : ~plan.ok

\* C7 witness: a request with the key "bogus" in its volume context was
\* refused with InvalidArgument naming that key.
C7_Witness ==
    /\ ReachedMountFunction /\ KnownClient
    /\ "bogus" \in DOMAIN last.req.volumeContext
    /\ last.resp.code = "InvalidArgument"
    /\ last.resp.arg = Str("bogus")
    /\ ~MountInvoked

ScenarioContext == Restrict(DirectBase, {"host", "user", "port", "zone", "path"})

ScenarioSecrets == Restrict(DirectBase, {"password"})

ScenarioSource ==
    <<"irods://", "alice", "@", "data.example.org", ":", "1", "2", "4", "7",
      "/", "tempZone", "/", "home", "/", "alice">>

\* C8 (as stated): the publish of the direct-backend scenario invokes the
\* mount primitive with source
\* irods://alice@data.example.org:1247/tempZone/home/alice, stdin inputs
\* [pw123] and no sensitive option.
C8_DirectScenario ==
    (/\ ReachedMountFunction
     /\ last.req.volumeContext = ScenarioContext
     /\ last.req.secrets = ScenarioSecrets)
        => /\ MountInvoked
           /\ last.mountCalls[1].source = ScenarioSource
           /\ last.mountCalls[1].stdin = <<Pw123>>
           /\ last.mountCalls[1].sensitive = <<>>

\* the strings of a request that come from a ticket, a password or the user
\* of a WebDAV credential
TicketValues(req) ==
    (ValuesOf(req.volumeContext, "ticket") \cup ValuesOf(req.secrets, "ticket"))
        \ {EmptyStr}

PasswordValues(req) ==
    ValuesOf(req.volumeContext, "password") \cup ValuesOf(req.secrets, "password")

WebdavUserValues(req) ==
    IF ExtractIRODSClientType(req.volumeContext, FuseType) = WebdavType
    THEN (ValuesOf(req.volumeContext, "user") \cup ValuesOf(req.secrets, "user"))
             \ {EmptyStr}
    ELSE {}

SecretStrings(req) ==
    TicketValues(req) \cup {TicketOption(v) : v \in TicketValues(req)}
        \cup WebdavUserValues(req) \cup {UsernameOption(u) : u \in WebdavUserValues(req)}
        \cup (PasswordValues(req) \ {EmptyStr})

\* C9: whatever the back end, an entry of the non-sensitive option list handed
\* to the mount primitive that is a ticket, a password or a WebDAV user (bare
\* or as ticket=/username= option) is one of the caller's own mount flags:
\* the driver puts none there.  The sensitive list holds only ticket and
\* username options, the stdin list only passwords.
C9_NoSecretInLoggedOptions ==
    MountInvoked
        => LET plan == last.mountCalls[1]
               flags == last.req.volumeCapability.mountFlags
           IN /\ \A i \in 1..Len(plan.options) :
                    plan.options[i] \in SecretStrings(last.req)
                       => hasOption(flags, plan.options[i])
              /\ \A i \in 1..Len(plan.sensitive) :
                    plan.sensitive[i] \in
                       {TicketOption(v) : v \in TicketValues(last.req)}
                       \cup {UsernameOption(u) : u \in WebdavUserValues(last.req)}
              /\ \A i \in 1..Len(plan.stdin) :
                    plan.stdin[i] \in PasswordValues(last.req) \cup {EmptyStr}

\* C9 witness: an irodsfs mount with a ticket and a password: the ticket is
\* the one sensitive option, the password the one stdin input, and the logged
\* options are the caller's flag.
C9_Witness ==
    /\ MountInvoked
    /\ last.mountCalls[1].fsType = "irodsfs"
    /\ TicketValues(last.req) # {}
    /\ Len(last.mountCalls[1].sensitive) = 1
    /\ last.mountCalls[1].stdin = <<Pw123>>
    /\ last.mountCalls[1].options = <<Str("noatime")>>

NfsMountInvoked == MountInvoked /\ last.mountCalls[1].fsType = "nfs"

IsPortOption(opt) == Len(opt) > 0 /\ Head(opt) = "port="

HasPortOption(options) == \E i \in 1..Len(options) : IsPortOption(options[i])

\* the port of the NFS descriptor of the last request
DescriptorPort ==
    ExtractIRODSNFSConnection(last.req.volumeContext, last.req.secrets).Port

\* C10 (as stated): for every port and every caller-supplied flag list, the
\* option list handed to the mount primitive by the NFS back end contains a
\* port option if and only if the port of the descriptor is not 2049.
C10_PortOptionIffNonDefault ==
    NfsMountInvoked
        => (HasPortOption(last.mountCalls[1].options) <=> DescriptorPort # 2049)

\* C10 (amended): the option list of the NFS back end is the generic list
\* (ro if read-only, then the caller's flags without repetitions) followed by
\* the options the back end derives, and the derived options are the one
\* option port=<port> if and only if the port of the descriptor is not 2049;
\* a port option among the caller's flags is passed on whatever the port.
C10_DerivedPortOptionIffNonDefault ==
    NfsMountInvoked
        => LET options == last.mountCalls[1].options
               generic == PublishMountOptions(last.req)
               derived == SubSeq(options, Len(generic) + 1, Len(options))
           IN /\ Len(options) >= Len(generic)
              /\ SubSeq(options, 1, Len(generic)) = generic
              /\ HasPortOption(derived) <=> DescriptorPort # 2049
              /\ derived \in {<<>>, <<PortOption(DescriptorPort)>>}

\* C10 witness: the default port with a caller-supplied port flag: the flag
\* is in the options, and the back end has derived none.
C10_Witness ==
    /\ NfsMountInvoked
    /\ DescriptorPort = 2049
    /\ HasPortOption(last.req.volumeCapability.mountFlags)
    /\ last.mountCalls[1].options = PublishMountOptions(last.req)

WebdavMountInvoked == MountInvoked /\ last.mountCalls[1].fsType = "davfs"

\* the user and the password of the WebDAV descriptor of the last request
WebdavUser == Field(last.req.volumeContext, last.req.secrets, "user")

WebdavPassword == Field(last.req.volumeContext, last.req.secrets, "password")

\* C11: the WebDAV back end hands the mount primitive the sensitive option
\* username=<user> and the stdin input <password> if and only if user and
\* password are both non-empty; with one of the two only, or none, the
\* sensitive-option list and the stdin list are both empty.
C11_WebdavCredentialBothOrNothing ==
    WebdavMountInvoked
        => LET plan == last.mountCalls[1]
               both == Len(WebdavUser) > 0 /\ Len(WebdavPassword) > 0
           IN /\ both => /\ plan.sensitive = <<Str("username=") \o WebdavUser>>
                         /\ plan.stdin = <<WebdavPassword>>
              /\ ~both => /\ plan.sensitive = <<>>
                          /\ plan.stdin = <<>>

\* C11 witness: a davfs mount of a request with a user and no password: no
\* credential was passed.
C11_Witness ==
    /\ WebdavMountInvoked
    /\ WebdavUser = Alice
    /\ WebdavPassword = EmptyStr
    /\ last.mountCalls[1].sensitive = <<>>
    /\ last.mountCalls[1].stdin = <<>>

\* the last call is a publish, on a path that an earlier publish has mounted,
\* of a request whose parameters every back end check accepts
RepublishOnMounted ==
    /\ PublishValidated
    /\ last.preMounts > 0
    /\ last.req.volumeContext = EmptyMap
    /\ last.req.secrets = DirectBase

\* C12: a publish on a path that a successful publish has already mounted
\* runs the full sequence: it calls MakeDir, and when MakeDir succeeds it
\* invokes the mount primitive; when the mount primitive errors the call
\* returns Internal with that error, and when it succeeds one more mount is
\* on the path.
C12_SecondPublishRunsFullSequence ==
    RepublishOnMounted
        => /\ last.mkdirCalls = 1
           /\ last.mkdirOk
                 => /\ MountInvoked
                    /\ last.mountErr # EmptyStr
                          => /\ last.resp.code = "Internal"
                             /\ last.resp.arg = last.mountErr
                             /\ mounts[last.req.targetPath] = last.preMounts
                    /\ last.mountErr = EmptyStr
                          => /\ last.resp.code = "OK"
                             /\ mounts[last.req.targetPath] = last.preMounts + 1

\* C12 witness: the second publish on a mounted path reused the directory,
\* invoked the mount primitive, which failed, and returned Internal.
C12_Witness ==
    /\ RepublishOnMounted
    /\ last.preMounts = 1
    /\ last.mkdirOk
    /\ MountInvoked
    /\ last.mountErr \in MountErrors
    /\ last.resp.code = "Internal"
    /\ last.resp.arg = last.mountErr

\* the last call's record shows no action on directories, mounts or the
\* mount table
NoPrimitiveCalled ==
    /\ last.mkdirCalls = 0
    /\ last.removeCalls = 0
    /\ last.mountCalls = <<>>
    /\ last.queryCalls = 0
    /\ last.unmountCalls = 0

\* C13: a publish request with an empty volume id, an empty target path, a
\* missing or an unsupported volume capability returns InvalidArgument
\* without creating or removing a directory and without invoking the mount
\* primitive; an unpublish request with an empty volume id or an empty
\* target path returns InvalidArgument without querying the mount table and
\* without invoking unmount.
C13_InvalidRequestsHaveNoEffect ==
    /\ (last.op = "publish" /\ ~PublishValidated)
          => /\ last.resp.code = "InvalidArgument"
             /\ NoPrimitiveCalled
    /\ (last.op = "unpublish" /\ ~UnpublishValidated)
          => /\ last.resp.code = "InvalidArgument"
             /\ NoPrimitiveCalled

\* C13 witness: an unpublish request without a volume id, on a path that is
\* mounted, was answered InvalidArgument and left the mount in place.
C13_Witness ==
    /\ last.op = "unpublish"
    /\ last.req.volumeId = ""
    /\ last.req.targetPath \in Paths
    /\ mounts[last.req.targetPath] > 0
    /\ last.resp.code = "InvalidArgument"
    /\ last.unmountCalls = 0

\* the last call is a publish whose MakeDir call failed
MakeDirErrored == PublishValidated /\ last.mkdirCalls = 1 /\ ~last.mkdirOk

\* C14: when MakeDir fails in a publish, the call returns Internal, the
\* mount primitive is not invoked, no removal is attempted, and the target
\* directory and the mounts on it are as before the call.
C14_MakeDirFailureStops ==
    MakeDirErrored
        => /\ last.resp.code = "Internal"
           /\ last.resp.msg = "Could not create dir"
           /\ last.mountCalls = <<>>
           /\ last.removeCalls = 0
           /\ dirs[last.req.targetPath] = last.preDir
           /\ mounts[last.req.targetPath] = last.preMounts

\* C14 witness: MakeDir failed on an absent target directory and the call
\* returned Internal.
C14_Witness ==
    /\ MakeDirErrored
    /\ last.preDir = "absent"
    /\ last.resp.code = "Internal"
    /\ last.removeCalls = 0

\* C15: in an unpublish with a volume id and a target path, a failing
\* reference-count query returns Internal with no unmount call; a query that
\* returns a count above 0 is followed by exactly one unmount call, and the
\* call returns Internal when the mount is still there after it and success
\* when it has been detached.
C15_UnpublishQueryThenOneUnmount ==
    UnpublishValidated
        => LET t == last.req.targetPath
           IN /\ last.queryCalls = 1
              /\ ~last.queryOk
                    => /\ last.resp.code = "Internal"
                       /\ last.resp.arg = QueryError
                       /\ last.unmountCalls = 0
                       /\ mounts[t] = last.preMounts
              /\ (last.queryOk /\ last.preMounts > 0)
                    => /\ last.refCount = last.preMounts
                       /\ last.unmountCalls = 1
                       /\ \/ /\ mounts[t] = last.preMounts - 1
                             /\ last.resp.code = "OK"
                          \/ /\ mounts[t] = last.preMounts
                             /\ last.resp.code = "Internal"
                             /\ last.resp.msg = "Could not unmount"
                             /\ last.resp.arg = UnmountError

\* C15 witness: the query returned a count of 2, unmount was called once and
\* failed, and the call returned Internal with both mounts still in place.
C15_Witness ==
    /\ UnpublishValidated
    /\ last.queryOk
    /\ last.refCount = 2
    /\ last.unmountCalls = 1
    /\ last.resp.code = "Internal"
    /\ mounts[last.req.targetPath] = 2

\* the first n elements of q with every element equal to an earlier one left out
RECURSIVE FirstOccurrences(_, _)
FirstOccurrences(q, n) ==
    IF n = 0 THEN <<>>
    ELSE IF \E j \in 1..(n - 1) : q[j] = q[n]
         THEN FirstOccurrences(q, n - 1)
         ELSE Append(FirstOccurrences(q, n - 1), q[n])

NoDuplicates(q) == \A i, j \in 1..Len(q) : q[i] = q[j] => i = j

\* the mount flags and the read-only prefix of the last request
LastFlags == last.req.volumeCapability.mountFlags
LastReadonlyPrefix == IF last.req.readonly THEN <<Str("ro")>> ELSE <<>>

\* the generic options of the plan handed to the mount primitive: all of
\* them, less the port option mountNfs derives from the descriptor
GenericOptions ==
    LET plan == last.mountCalls[1]
        want == FirstOccurrences(LastReadonlyPrefix \o LastFlags,
                                 Len(LastReadonlyPrefix \o LastFlags))
    IN IF plan.fsType = "nfs" /\ Len(plan.options) > Len(want)
       THEN SubSeq(plan.options, 1, Len(plan.options) - 1)
       ELSE plan.options

\* C16: the generic mount options of a publish are "ro" when the request is
\* read-only, followed by the mount flags of the request in their order with
\* every flag equal to an earlier element of the list left out; the list has
\* no duplicates, and merging the same flags into it again changes nothing.
C16_MountOptionsMerge ==
    (MountInvoked /\ last.req.volumeCapability.hasMount)
        => LET all == LastReadonlyPrefix \o LastFlags
           IN /\ GenericOptions = FirstOccurrences(all, Len(all))
              /\ last.req.readonly => Head(GenericOptions) = Str("ro")
              /\ NoDuplicates(GenericOptions)
              /\ AppendFlags(GenericOptions, LastFlags) = GenericOptions
              /\ last.mountCalls[1].fsType # "nfs"
                    => last.mountCalls[1].options = GenericOptions

\* C16 witness: a read-only request with the flags noatime, ro was mounted
\* with the options ro, noatime.
C16_Witness ==
    /\ MountInvoked
    /\ last.req.readonly
    /\ LastFlags = <<Str("noatime"), Str("ro")>>
    /\ last.mountCalls[1].options = <<Str("ro"), Str("noatime")>>

FuseMountInvoked == MountInvoked /\ last.mountCalls[1].fsType = "irodsfs"

\* the sensitive options that carry the ticket v
TicketOptions(v) == IF Len(v) > 0 THEN <<TicketOption(v)>> ELSE <<>>

\* C17: the ticket of a direct mount is the one of the secrets when the
\* secrets have a ticket key, else the one of the volume context when it has
\* one, else empty; an empty ticket passes no ticket option to the mount
\* primitive, any other ticket passes ticket=<ticket> as the only sensitive
\* option.
C17_TicketSecretsOverContext ==
    FuseMountInvoked
        => LET ctx == last.req.volumeContext
               sec == last.req.secrets
               plan == last.mountCalls[1]
           IN /\ \E v \in FieldValues(ctx, sec, "ticket") :
                    plan.sensitive = TicketOptions(v)
              /\ (HasKey(ctx, "ticket") /\ HasKey(sec, "ticket"))
                    => \E v \in ValuesOf(sec, "ticket") :
                          plan.sensitive = TicketOptions(v)
              /\ (HasKey(ctx, "ticket") /\ ~HasKey(sec, "ticket"))
                    => \E v \in ValuesOf(ctx, "ticket") :
                          plan.sensitive = TicketOptions(v)
              /\ (~HasKey(ctx, "ticket") /\ ~HasKey(sec, "ticket"))
                    => plan.sensitive = <<>>

\* C17 witness: the volume context and the secrets both had a ticket and the
\* mount primitive got the one of the secrets.
C17_Witness ==
    /\ FuseMountInvoked
    /\ ValuesOf(last.req.volumeContext, "ticket") = {TicketA}
    /\ ValuesOf(last.req.secrets, "ticket") = {TicketC}
    /\ last.mountCalls[1].sensitive = <<TicketOption(TicketC)>>

\* C18: whenever a publish call invokes the mount primitive, the target
\* directory it ensured with MakeDir exists at that moment, also when the
\* steps of another publish call on the same path run in between.
C18_DirectoryExistsAtMount ==
    \A p \in Callers :
        Len(calls[p].rec.mountCalls) = 1 => calls[p].dirAtMount # "absent"

\* the last call is a publish that failed after its MakeDir call succeeded
PublishFailedAfterMakeDir ==
    PublishValidated /\ last.mkdirOk /\ last.resp.code # "OK"

\* C19: a publish that fails after MakeDir tries one removal of the target
\* path, and when the directory was non-empty before the call, or a mount
\* point of an earlier publish, the directory, its contents and the mounts
\* on it are after the call as they were before it.
C19_FailedPublishKeepsCallerData ==
    PublishFailedAfterMakeDir
        => /\ last.removeCalls = 1
           /\ (last.preDir = "nonempty" \/ last.preMounts > 0)
                 => /\ dirs[last.req.targetPath] = last.preDir
                    /\ mounts[last.req.targetPath] = last.preMounts
                    /\ ~last.removeOk

\* C19 witness: the mount primitive failed on a non-empty directory that was
\* no mount point; the removal was tried and the directory is still there
\* with its contents.
C19_Witness ==
    /\ PublishFailedAfterMakeDir
    /\ MountInvoked
    /\ last.preDir = "nonempty"
    /\ last.preMounts = 0
    /\ last.removeCalls = 1
    /\ dirs[last.req.targetPath] = "nonempty"

\* a step of NodeUnpublishVolume: no directory changes, the record shows no
\* MakeDir, removal or mount call and at most one unmount call, and the only
\* change of the mount table is one mount less on the target path after an
\* unmount call that succeeded
UnpublishStepFrame ==
    last'.op = "unpublish"
        => /\ dirs' = dirs
           /\ last'.mkdirCalls = 0
           /\ last'.removeCalls = 0
           /\ last'.mountCalls = <<>>
           /\ last'.unmountCalls \in {0, 1}
           /\ \A p \in Paths :
                 mounts'[p] = IF /\ p = last'.req.targetPath
                                 /\ last'.unmountCalls = 1
                                 /\ last'.resp.code = "OK"
                              THEN mounts[p] - 1
                              ELSE mounts[p]
           /\ last'.unmountCalls = 1 => dirs'[last'.req.targetPath] # "absent"

\* a successful unpublish right after a successful publish of the same
\* target path: the directory still exists and the mount of the publish is
\* gone
UnpublishAfterPublishStep ==
    (/\ last.op = "publish"
     /\ last.resp.code = "OK"
     /\ Len(last.mountCalls) = 1
     /\ last'.op = "unpublish"
     /\ last'.resp.code = "OK"
     /\ last'.req.volumeId # ""
     /\ last'.req.targetPath = last.req.targetPath)
        => /\ dirs'[last.req.targetPath] # "absent"
           /\ dirs'[last.req.targetPath] = dirs[last.req.targetPath]
           /\ last'.unmountCalls = 1
           /\ mounts'[last.req.targetPath] = mounts[last.req.targetPath] - 1

\* C20: NodeUnpublishVolume changes nothing but the mount table, by at most
\* one unmount of the target path: it never creates or removes a directory
\* and never invokes the mount primitive, so after a successful publish
\* followed by a successful unpublish the target directory still exists.
C20_UnpublishOnlyUnmounts ==
    [][UnpublishStepFrame /\ UnpublishAfterPublishStep]_vars

\* C20 witness: an unpublish detached the only mount of a path that a
\* publish had created and mounted, and the directory is still there.
C20_Witness ==
    /\ UnpublishValidated
    /\ last.resp.code = "OK"
    /\ last.unmountCalls = 1
    /\ last.preDir = "empty"
    /\ mounts[last.req.targetPath] = 0
    /\ dirs[last.req.targetPath] = "empty"

====
